---- MODULE Spec2Model ----
(***************************************************************************)
(* Model of tenable/sc/alerts.py: the alert document builder               *)
(* AlertAPI._alert_creator and the six endpoint methods that use it        *)
(* (list, details, create, update, delete, execute).                       *)
(*                                                                         *)
(* One call of one method is modelled: Init draws the arguments of the     *)
(* call, and one action per method runs the whole method body, recording   *)
(* the exception it ends in (if any), the requests handed to the HTTP      *)
(* collaborator and the invocations of the analysis query constructor.     *)
(*                                                                         *)
(* Python values are records [t, s, items]: t is the Python type, s the    *)
(* text of a scalar, items the elements of a tuple, list or dict.  An      *)
(* element is a record [k, t, s]: k is the dict key ("" in a tuple).       *)
(***************************************************************************)
EXTENDS Integers, Sequences, FiniteSets, TLC

VARIABLES pc, args, exc, http, builder, payload

vars == <<pc, args, exc, http, builder, payload>>

(* ---------------------------------------------------------------------- *)
(* Bounds of the model.                                                    *)
(* ---------------------------------------------------------------------- *)

\* largest number of keyword options supplied in one call
MaxOpts == 3

\* largest number of positional filter triples supplied in one call
MaxFilters == 1

\* largest number of entries of the `fields` argument of list / details
MaxFields == 2

(* ---------------------------------------------------------------------- *)
(* Python values.                                                          *)
(* ---------------------------------------------------------------------- *)

Elem(k, t, s) == [k |-> k, t |-> t, s |-> s]

Absent == [t |-> "absent", s |-> "", items |-> <<>>]
StrV(s) == [t |-> "str", s |-> s, items |-> <<>>]
IntV(s) == [t |-> "int", s |-> s, items |-> <<>>]
BoolV(s) == [t |-> "bool", s |-> s, items |-> <<>>]
TupleV(items) == [t |-> "tuple", s |-> "", items |-> items]
ListV(items) == [t |-> "list", s |-> "", items |-> items]
DictV(items) == [t |-> "dict", s |-> "", items |-> items]

\* an element of a tuple, read as a value
Item(e) == [t |-> e.t, s |-> e.s, items |-> <<>>]

\* str(b) of a Python bool
str(b) == IF b.s = "1" THEN "True" ELSE "False"

\* s.lower() on the two texts str() gives for a bool
lower(s) == IF s = "True" THEN "true" ELSE IF s = "False" THEN "false" ELSE s

(* ---------------------------------------------------------------------- *)
(* Keyword mappings (the **kw dict).                                       *)
(* ---------------------------------------------------------------------- *)

\* the keys the builder inspects
Recognized ==
    {"data_type", "name", "description", "query", "always_exec_on_trigger",
     "trigger", "schedule_type", "schedule_start", "schedule_repeat"}

\* the keys the builder writes
WireKeys ==
    {"analysis_type", "query", "executeOnEveryTrigger", "triggerName",
     "triggerOperator", "triggerValue", "schedule"}

\* keys a caller may supply that the builder does not inspect
OtherKeys == {"action", "triggerOperator"}

SuppliedKeys == Recognized \cup OtherKeys

AllKeys == SuppliedKeys \cup WireKeys

Has(kw, k) == kw[k].t # "absent"

Del(kw, k) == [kw EXCEPT ![k] = Absent]

Keys(kw) == {k \in AllKeys : Has(kw, k)}

NoOpts == [k \in AllKeys |-> Absent]

(* ---------------------------------------------------------------------- *)
(* Exceptions.                                                             *)
(* ---------------------------------------------------------------------- *)

NoExc == [kind |-> "none", field |-> ""]

Exc(kind, field) == [kind |-> kind, field |-> field]

(* ---------------------------------------------------------------------- *)
(* Collaborators that live outside this file.                              *)
(* ---------------------------------------------------------------------- *)

\* SCEndpoint._check(name, obj, expected_type, choices=None): the field
\* validator.  It returns obj, or raises a validation error naming the field
\* when obj is not of the expected type or not one of the choices.
\* choices = {} stands for "no choices given".
_check(name, obj, expected_type, choices) ==
    IF obj.t # expected_type
    THEN [exc |-> Exc("ValidationError", name), val |-> obj]
    ELSE IF choices # {} /\ obj.s \notin choices
    THEN [exc |-> Exc("ValidationError", name), val |-> obj]
    ELSE [exc |-> NoExc, val |-> obj]

\* AnalysisAPI._query_constructor(*filters, **kw): the filter query builder.
\* It turns the filter triples and the effective data type into a structured
\* query object (a dict).
_query_constructor(filters, kw) ==
    DictV(<<Elem("type", kw["analysis_type"].t, kw["analysis_type"].s)>>
          \o [i \in 1..Len(filters) |->
                Elem(filters[i].items[1].s, filters[i].items[2].s,
                     filters[i].items[3].s)])

(* ---------------------------------------------------------------------- *)
(* AlertAPI._alert_creator, block by block.  A builder state is            *)
(* [kw, exc, builder]: the kw dict as mutated so far, the exception raised *)
(* (NoExc while running) and the query-constructor invocations so far.     *)
(* ---------------------------------------------------------------------- *)

Running(st) == st.exc = NoExc

Raise(st, e) == [st EXCEPT !.exc = e]

\* lines 35-43: filters given => build the query, consume data_type
BuildQuery(filters, st) ==
    IF Len(filters) > 0
    THEN LET kw1 == IF ~Has(st.kw, "data_type")
                    THEN [st.kw EXCEPT !["data_type"] = StrV("vuln")]
                    ELSE st.kw
             kw2 == [kw1 EXCEPT !["analysis_type"] = kw1["data_type"]]
             kw3 == [kw2 EXCEPT !["query"] = _query_constructor(filters, kw2)]
         IN [st EXCEPT
               !.kw = Del(Del(kw3, "analysis_type"), "data_type"),
               !.builder = Append(st.builder,
                   [filters |-> filters, data_type |-> kw2["analysis_type"]])]
    ELSE st

\* lines 45-46
CheckName(st) ==
    IF Running(st) /\ Has(st.kw, "name")
    THEN LET r == _check("name", st.kw["name"], "str", {})
         IN IF r.exc # NoExc THEN Raise(st, r.exc)
            ELSE [st EXCEPT !.kw["name"] = r.val]
    ELSE st

\* lines 48-50
CheckDescription(st) ==
    IF Running(st) /\ Has(st.kw, "description")
    THEN LET r == _check("description", st.kw["description"], "str", {})
         IN IF r.exc # NoExc THEN Raise(st, r.exc)
            ELSE [st EXCEPT !.kw["description"] = r.val]
    ELSE st

\* lines 52-53: the right-hand side (_check) is evaluated first, then the
\* assignment target doc['query'] looks up the name doc, which is bound
\* nowhere in the function, the module or the builtins: NameError.
CheckQuery(st) ==
    IF Running(st) /\ Has(st.kw, "query")
    THEN LET r == _check("query", st.kw["query"], "dict", {})
         IN IF r.exc # NoExc THEN Raise(st, r.exc)
            ELSE Raise(st, Exc("NameError", "doc"))
    ELSE st

\* lines 55-61
ExecOnEveryTrigger(st) ==
    IF Running(st) /\ Has(st.kw, "always_exec_on_trigger")
    THEN LET r == _check("always_exec_on_trigger",
                         st.kw["always_exec_on_trigger"], "bool", {})
         IN IF r.exc # NoExc THEN Raise(st, r.exc)
            ELSE [st EXCEPT !.kw =
                    Del([st.kw EXCEPT !["executeOnEveryTrigger"] =
                            StrV(lower(str(r.val)))],
                        "always_exec_on_trigger")]
    ELSE st

\* no choices handed to the operator's check
TriggerOperators_None == {}

\* the choices of line 72
TriggerOperators == {">=", "<=", "=", "!="}

\* lines 63-75: kw['trigger'][i] raises IndexError on a tuple that is too
\* short; elements past the third are never read.
ExpandTrigger(st) ==
    IF Running(st) /\ Has(st.kw, "trigger")
    THEN LET trigger == st.kw["trigger"]
             n == Len(trigger.items)
             r0 == _check("trigger", trigger, "tuple", {})
             r1 == _check("triggerName", Item(trigger.items[1]), "str", {})
             r2 == _check("triggerOperator", Item(trigger.items[2]), "str",
                          TriggerOperators)
             r3 == _check("triggerValue", Item(trigger.items[3]), "str", {})
         IN IF r0.exc # NoExc THEN Raise(st, r0.exc)
            ELSE IF n < 1 THEN Raise(st, Exc("IndexError", "trigger"))
            ELSE IF r1.exc # NoExc THEN Raise(st, r1.exc)
            ELSE IF n < 2 THEN Raise(st, Exc("IndexError", "trigger"))
            ELSE IF r2.exc # NoExc THEN Raise(st, r2.exc)
            ELSE IF n < 3 THEN Raise(st, Exc("IndexError", "trigger"))
            ELSE IF r3.exc # NoExc THEN Raise(st, r3.exc)
            ELSE [st EXCEPT !.kw =
                    Del([st.kw EXCEPT !["triggerName"] = r1.val,
                                      !["triggerOperator"] = r2.val,
                                      !["triggerValue"] = r3.val],
                        "trigger")]
    ELSE st

\* a choice list that also lets "ical" through the plain branch
ScheduleTypes_WithIcal == {"dependent", "ical", "never", "rollover", "template"}

\* the choices of lines 100-101
ScheduleTypes == {"dependent", "never", "rollover", "template"}

\* an ical branch that leaves schedule_start behind
IcalBranch_KeepsStart(st) ==
    LET rs == _check("schedule_start", st.kw["schedule_start"], "str", {})
        rr == _check("schedule_repeat", st.kw["schedule_repeat"], "str", {})
    IN IF rs.exc # NoExc THEN Raise(st, rs.exc)
       ELSE IF rr.exc # NoExc THEN Raise(st, rr.exc)
       ELSE [st EXCEPT !.kw =
               Del(Del(
                   [st.kw EXCEPT !["schedule"] =
                       DictV(<<Elem("type", "str", "ical"),
                               Elem("start", rs.val.t, rs.val.s),
                               Elem("repeatRule", rr.val.t, rr.val.s)>>)],
                   "schedule_type"), "schedule_repeat")]

\* lines 85-94: the three keys collapse into the schedule sub-document
IcalBranch(st) ==
    LET rs == _check("schedule_start", st.kw["schedule_start"], "str", {})
        rr == _check("schedule_repeat", st.kw["schedule_repeat"], "str", {})
    IN IF rs.exc # NoExc THEN Raise(st, rs.exc)
       ELSE IF rr.exc # NoExc THEN Raise(st, rr.exc)
       ELSE [st EXCEPT !.kw =
               Del(Del(Del(
                   [st.kw EXCEPT !["schedule"] =
                       DictV(<<Elem("type", "str", "ical"),
                               Elem("start", rs.val.t, rs.val.s),
                               Elem("repeatRule", rr.val.t, rr.val.s)>>)],
                   "schedule_type"), "schedule_start"), "schedule_repeat")]

\* lines 99-102: a schedule sub-document with just the type
PlainBranch(st) ==
    LET r == _check("schedule_type", st.kw["schedule_type"], "str",
                    ScheduleTypes)
    IN IF r.exc # NoExc THEN Raise(st, r.exc)
       ELSE [st EXCEPT !.kw =
               Del([st.kw EXCEPT !["schedule"] =
                       DictV(<<Elem("type", r.val.t, r.val.s)>>)],
                   "schedule_type")]

\* a schedule block that fills in the documented default ("never") when no
\* schedule_type is given
ResolveSchedule_DefaultNever(st) ==
    IF ~Running(st) THEN st
    ELSE IF /\ Has(st.kw, "schedule_type")
            /\ st.kw["schedule_type"] = StrV("ical")
            /\ Has(st.kw, "schedule_start")
            /\ Has(st.kw, "schedule_repeat")
    THEN IcalBranch(st)
    ELSE IF Has(st.kw, "schedule_type")
    THEN PlainBranch(st)
    ELSE [st EXCEPT !.kw["schedule"] = DictV(<<Elem("type", "str", "never")>>)]

\* lines 77-102: the if / elif on the schedule keys
ResolveSchedule(st) ==
    IF ~Running(st) THEN st
    ELSE IF /\ Has(st.kw, "schedule_type")
            /\ st.kw["schedule_type"] = StrV("ical")
            /\ Has(st.kw, "schedule_start")
            /\ Has(st.kw, "schedule_repeat")
    THEN IcalBranch(st)
    ELSE IF Has(st.kw, "schedule_type")
    THEN PlainBranch(st)
    ELSE st

\* lines 29-106: the whole builder; the result's kw is what line 106 returns
\* when the result's exc is NoExc.
_alert_creator(filters, kw) ==
    ResolveSchedule(ExpandTrigger(ExecOnEveryTrigger(CheckQuery(
        CheckDescription(CheckName(
            BuildQuery(filters,
                [kw |-> kw, exc |-> NoExc, builder |-> <<>>])))))))

(* ---------------------------------------------------------------------- *)
(* The endpoint methods.  Each gives the outcome of one call:              *)
(* [exc, http, builder, payload]: the exception the call ends in (NoExc    *)
(* when it returns), the requests handed to the HTTP collaborator in       *)
(* order, the query-constructor invocations, and the local `payload` of    *)
(* create / update ([set |-> FALSE, ...] while unassigned).                *)
(* resp is what the HTTP collaborator does with a request: "ok" (a decoded *)
(* response comes back) or "error" (it raises on a non-2xx response).      *)
(* ---------------------------------------------------------------------- *)

NoPayload == [set |-> FALSE, doc |-> NoOpts]

Request(verb, path, params, hasJson, json) ==
    [verb |-> verb, path |-> path, params |-> params,
     hasJson |-> hasJson, json |-> json]

\* self._api.<verb>(...).json()['response']
Transport(resp) == IF resp = "ok" THEN NoExc ELSE Exc("TransportError", "")

Outcome(e, reqs, b, p) == [exc |-> e, http |-> reqs, builder |-> b, payload |-> p]

\* 'alert/{}'.format(id)
AlertPath(id) == "alert/" \o id.s

\* the first entry of fields that _check('field', f, str) rejects, 0 if none
RECURSIVE FirstBadField(_, _)
FirstBadField(items, i) ==
    IF i > Len(items) THEN 0
    ELSE IF _check("field", Item(items[i]), "str", {}).exc # NoExc THEN i
    ELSE FirstBadField(items, i + 1)

\* ','.join(...)
RECURSIVE join(_, _)
join(items, i) ==
    IF i > Len(items) THEN ""
    ELSE IF i = Len(items) THEN items[i].s
    ELSE items[i].s \o "," \o join(items, i + 1)

\* lines 127-129 and 150-152: params = dict(); if fields: params['fields'] = ...
\* (None and the empty list are both falsy)
FieldParams(fields) ==
    IF fields.t = "absent" \/ Len(fields.items) = 0
    THEN [exc |-> NoExc, params |-> ""]
    ELSE IF FirstBadField(fields.items, 1) # 0
    THEN [exc |-> Exc("ValidationError", "field"), params |-> ""]
    ELSE [exc |-> NoExc, params |-> "fields=" \o join(fields.items, 1)]

\* lines 110-131
list(fields, resp) ==
    LET p == FieldParams(fields)
    IN IF p.exc # NoExc THEN Outcome(p.exc, <<>>, <<>>, NoPayload)
       ELSE Outcome(Transport(resp),
                    <<Request("GET", "alert", p.params, FALSE, NoOpts)>>,
                    <<>>, NoPayload)

\* lines 133-155
details(id, fields, resp) ==
    LET p == FieldParams(fields)
        c == _check("id", id, "int", {})
    IN IF p.exc # NoExc THEN Outcome(p.exc, <<>>, <<>>, NoPayload)
       ELSE IF c.exc # NoExc THEN Outcome(c.exc, <<>>, <<>>, NoPayload)
       ELSE Outcome(Transport(resp),
                    <<Request("GET", AlertPath(c.val), p.params, FALSE, NoOpts)>>,
                    <<>>, NoPayload)

\* lines 157-266
create(filters, kw, resp) ==
    LET st == _alert_creator(filters, kw)
    IN IF st.exc # NoExc THEN Outcome(st.exc, <<>>, st.builder, NoPayload)
       ELSE Outcome(Transport(resp),
                    <<Request("POST", "alert", "", TRUE, st.kw)>>,
                    st.builder, [set |-> TRUE, doc |-> st.kw])

\* an update that interpolates the id unchecked and validates it only after
\* the PATCH has gone out
update_PatchBeforeIdCheck(id, filters, kw, resp) ==
    LET st == _alert_creator(filters, kw)
        c == _check("id", id, "int", {})
        sent == <<Request("PATCH", AlertPath(id), "", TRUE, st.kw)>>
    IN IF st.exc # NoExc THEN Outcome(st.exc, <<>>, st.builder, NoPayload)
       ELSE IF resp # "ok"
       THEN Outcome(Transport(resp), sent, st.builder,
                    [set |-> TRUE, doc |-> st.kw])
       ELSE Outcome(c.exc, sent, st.builder, [set |-> TRUE, doc |-> st.kw])

\* lines 268-321: the payload is built first, the id is checked while the
\* arguments of patch() are evaluated
update(id, filters, kw, resp) ==
    LET st == _alert_creator(filters, kw)
        c == _check("id", id, "int", {})
    IN IF st.exc # NoExc THEN Outcome(st.exc, <<>>, st.builder, NoPayload)
       ELSE IF c.exc # NoExc
       THEN Outcome(c.exc, <<>>, st.builder, [set |-> TRUE, doc |-> st.kw])
       ELSE Outcome(Transport(resp),
                    <<Request("PATCH", AlertPath(c.val), "", TRUE, st.kw)>>,
                    st.builder, [set |-> TRUE, doc |-> st.kw])

\* lines 323-339
delete(id, resp) ==
    LET c == _check("id", id, "int", {})
    IN IF c.exc # NoExc THEN Outcome(c.exc, <<>>, <<>>, NoPayload)
       ELSE Outcome(Transport(resp),
                    <<Request("DELETE", AlertPath(c.val), "", FALSE, NoOpts)>>,
                    <<>>, NoPayload)

\* lines 341-354
execute(id, resp) ==
    LET c == _check("id", id, "int", {})
    IN IF c.exc # NoExc THEN Outcome(c.exc, <<>>, <<>>, NoPayload)
       ELSE Outcome(Transport(resp),
                    <<Request("POST", AlertPath(c.val) \o "/execute", "", FALSE,
                              NoOpts)>>,
                    <<>>, NoPayload)

(* ---------------------------------------------------------------------- *)
(* The arguments a caller may pass.                                        *)
(* ---------------------------------------------------------------------- *)

OkTrigger == <<Elem("", "str", "sumip"), Elem("", "str", ">="),
               Elem("", "str", "100")>>

TriggerValues ==
    {StrV("sumip"),
     TupleV(<<>>),
     TupleV(SubSeq(OkTrigger, 1, 1)),
     TupleV(SubSeq(OkTrigger, 1, 2)),
     TupleV(OkTrigger),
     TupleV([OkTrigger EXCEPT ![2] = Elem("", "str", "!=")]),
     TupleV([OkTrigger EXCEPT ![2] = Elem("", "str", "~")]),
     TupleV([OkTrigger EXCEPT ![3] = Elem("", "int", "100")]),
     TupleV(Append(OkTrigger, Elem("", "str", "extra")))}

\* the values tried for each key a caller may supply
Domain ==
    [data_type |-> {StrV("lce")},
     name |-> {StrV("N"), IntV("5")},
     description |-> {StrV("D"), IntV("5")},
     query |-> {DictV(<<Elem("type", "str", "vuln")>>), StrV("q")},
     always_exec_on_trigger |-> {BoolV("1"), BoolV("0"), StrV("yes")},
     trigger |-> TriggerValues,
     schedule_type |-> {StrV("ical"), StrV("dependent"), StrV("never"),
                        StrV("rollover"), StrV("template"), StrV("bogus"),
                        IntV("5")},
     schedule_start |-> {StrV("20240101T000000Z"), IntV("5")},
     schedule_repeat |-> {StrV("FREQ=DAILY"), IntV("5")},
     action |-> {ListV(<<Elem("type", "str", "notification")>>)},
     triggerOperator |-> {StrV("~")}]

\* every assignment of values to the keys K, on top of kw
RECURSIVE Assignments(_, _)
Assignments(K, kw) ==
    IF K = {} THEN {kw}
    ELSE LET k == CHOOSE x \in K : TRUE
         IN UNION {Assignments(K \ {k}, [kw EXCEPT ![k] = v]) : v \in Domain[k]}

\* every **kw with at most MaxOpts keys
OptionSets ==
    UNION {Assignments(K, NoOpts) :
             K \in {S \in SUBSET SuppliedKeys : Cardinality(S) <= MaxOpts}}

FilterTriples ==
    {TupleV(<<Elem("", "str", "severity"), Elem("", "str", "="),
              Elem("", "str", "3,4")>>)}

\* every *filters with at most MaxFilters triples
FilterLists == UNION {[1..n -> FilterTriples] : n \in 0..MaxFilters}

FieldEntries == {Elem("", "str", "id"), Elem("", "str", "name"),
                 Elem("", "int", "1")}

\* fields=None, or a list of at most MaxFields entries
FieldLists ==
    {Absent} \cup
    {ListV(f) : f \in UNION {[1..n -> FieldEntries] : n \in 0..MaxFields}}

\* id not passed (create, list), an integer, or a text
Ids == {Absent, IntV("7"), StrV("7")}

\* the argument lists of one call: options and filters go to create / update,
\* fields to list / details
ArgLists ==
    {a \in [id : Ids, filters : FilterLists, kw : OptionSets,
            fields : FieldLists] :
        a.fields = Absent \/ (a.kw = NoOpts /\ a.filters = <<>>)}

Responses == {"ok", "error"}

(* ---------------------------------------------------------------------- *)
(* The state machine: one call.                                            *)
(* ---------------------------------------------------------------------- *)

Init ==
    /\ pc = "call"
    /\ args \in ArgLists
    /\ exc = NoExc
    /\ http = <<>>
    /\ builder = <<>>
    /\ payload = NoPayload

Finish(op, out) ==
    /\ pc' = op
    /\ exc' = out.exc
    /\ http' = out.http
    /\ builder' = out.builder
    /\ payload' = out.payload
    /\ UNCHANGED args

\* def list(self, fields=None)
List ==
    /\ pc = "call"
    /\ args.id = Absent /\ args.kw = NoOpts /\ args.filters = <<>>
    /\ \E resp \in Responses : Finish("list", list(args.fields, resp))

\* def details(self, id, fields=None)
Details ==
    /\ pc = "call"
    /\ args.id # Absent /\ args.kw = NoOpts /\ args.filters = <<>>
    /\ \E resp \in Responses :
          Finish("details", details(args.id, args.fields, resp))

\* def create(self, *filters, **kw)
Create ==
    /\ pc = "call"
    /\ args.id = Absent /\ args.fields = Absent
    /\ \E resp \in Responses :
          Finish("create", create(args.filters, args.kw, resp))

\* def update(self, id, *filters, **kw)
Update ==
    /\ pc = "call"
    /\ args.id # Absent /\ args.fields = Absent
    /\ \E resp \in Responses :
          Finish("update", update(args.id, args.filters, args.kw, resp))

\* def delete(self, id)
Delete ==
    /\ pc = "call"
    /\ args.id # Absent /\ args.fields = Absent
    /\ args.kw = NoOpts /\ args.filters = <<>>
    /\ \E resp \in Responses : Finish("delete", delete(args.id, resp))

\* def execute(self, id)
Execute ==
    /\ pc = "call"
    /\ args.id # Absent /\ args.fields = Absent
    /\ args.kw = NoOpts /\ args.filters = <<>>
    /\ \E resp \in Responses : Finish("execute", execute(args.id, resp))

Next == List \/ Details \/ Create \/ Update \/ Delete \/ Execute

Spec == Init /\ [][Next]_vars

(* ---------------------------------------------------------------------- *)
(* Vocabulary of the properties.                                           *)
(* ---------------------------------------------------------------------- *)

\* the call was a create or an update and has ended
Normalizing == pc \in {"create", "update"}

\* _alert_creator returned: its result is payload.doc
Normalized == Normalizing /\ payload.set

Failed(field) == exc = Exc("ValidationError", field)

IsText(v) == v.t = "str"

\* the comparison operators a trigger may carry
Comparisons == {">=", "<=", "=", "!="}

\* the schedule variants that take no start time and no repeat rule
PlainTypes == {"dependent", "never", "rollover", "template"}

\* a trigger in the documented format: a tuple of three
IsTriple(v) == v.t = "tuple" /\ Len(v.items) = 3

\* schedule_type = "ical" accompanied by both schedule_start and schedule_repeat
FullIcal(kw) ==
    /\ kw["schedule_type"] = StrV("ical")
    /\ Has(kw, "schedule_start")
    /\ Has(kw, "schedule_repeat")

\* the option set validates field by field, the query aside
OtherwiseValid(kw) ==
    /\ Has(kw, "name") => IsText(kw["name"])
    /\ Has(kw, "description") => IsText(kw["description"])
    /\ Has(kw, "always_exec_on_trigger") =>
          kw["always_exec_on_trigger"].t = "bool"
    /\ Has(kw, "trigger") =>
          /\ IsTriple(kw["trigger"])
          /\ \A i \in 1..3 : kw["trigger"].items[i].t = "str"
          /\ kw["trigger"].items[2].s \in Comparisons
    /\ Has(kw, "schedule_type") =>
          \/ IsText(kw["schedule_type"]) /\ kw["schedule_type"].s \in PlainTypes
          \/ /\ FullIcal(kw)
             /\ IsText(kw["schedule_start"])
             /\ IsText(kw["schedule_repeat"])

\* the query a call carries: the builder's result when filters are given,
\* else the dict passed as query=
ExpectedQuery(a) ==
    IF Len(a.filters) > 0
    THEN _query_constructor(a.filters,
            [a.kw EXCEPT !["analysis_type"] =
                IF Has(a.kw, "data_type") THEN a.kw["data_type"]
                ELSE StrV("vuln")])
    ELSE a.kw["query"]

CarriesQuery(a) ==
    Len(a.filters) > 0 \/ a.kw["query"].t = "dict"

(* ---------------------------------------------------------------------- *)
(* C1.                                                                     *)
(* ---------------------------------------------------------------------- *)

\* C1: a create whose options are otherwise valid and that carries a query
\* (from filter triples, or a dict passed as query=) normalizes without
\* raising and issues exactly one POST to `alert` whose body has key `query`
\* equal to that query.
C1_CreateWithQueryPosts ==
    (pc = "create" /\ CarriesQuery(args) /\ OtherwiseValid(args.kw)) =>
        /\ payload.set
        /\ Len(http) = 1
        /\ http[1].verb = "POST"
        /\ http[1].path = "alert"
        /\ http[1].hasJson
        /\ http[1].json["query"] = ExpectedQuery(args)

(* ---------------------------------------------------------------------- *)
(* C2.                                                                     *)
(* ---------------------------------------------------------------------- *)

\* C2: a create or update whose trigger is present and is not a 3-element
\* tuple ends in a ValidationError, with neither the query constructor nor
\* any HTTP verb invoked before the error.
C2_BadTriggerFailsFirst ==
    (Normalizing /\ Has(args.kw, "trigger") /\ ~IsTriple(args.kw["trigger"])) =>
        /\ exc.kind = "ValidationError"
        /\ builder = <<>>
        /\ http = <<>>

(* ---------------------------------------------------------------------- *)
(* C3.                                                                     *)
(* ---------------------------------------------------------------------- *)

\* C3: a call of list, details, create, update, delete or execute that ends
\* in a validation failure has handed no request to the HTTP collaborator.
C3_NoRequestBeforeValidationFailure ==
    (pc # "call" /\ exc.kind = "ValidationError") => http = <<>>

\* an update whose document normalized and whose id then failed validation
C3_Witness ==
    /\ pc = "update"
    /\ payload.set
    /\ Failed("id")
    /\ Keys(payload.doc) # {}

(* ---------------------------------------------------------------------- *)
(* C4.                                                                     *)
(* ---------------------------------------------------------------------- *)

IcalWithTexts(kw) ==
    /\ FullIcal(kw)
    /\ IsText(kw["schedule_start"])
    /\ IsText(kw["schedule_repeat"])

\* C4: with schedule_type = "ical" and schedule_start = s, schedule_repeat = r
\* both texts, the normalized output has
\* schedule = {type: "ical", start: s, repeatRule: r} and none of the keys
\* schedule_type, schedule_start, schedule_repeat.
C4_IcalCollapses ==
    (Normalized /\ IcalWithTexts(args.kw)) =>
        /\ payload.doc["schedule"] =
              DictV(<<Elem("type", "str", "ical"),
                      Elem("start", "str", args.kw["schedule_start"].s),
                      Elem("repeatRule", "str", args.kw["schedule_repeat"].s)>>)
        /\ ~Has(payload.doc, "schedule_type")
        /\ ~Has(payload.doc, "schedule_start")
        /\ ~Has(payload.doc, "schedule_repeat")

C4_Witness ==
    /\ pc = "create"
    /\ IcalWithTexts(args.kw)
    /\ payload.set
    /\ Len(http) = 1

(* ---------------------------------------------------------------------- *)
(* C5.                                                                     *)
(* ---------------------------------------------------------------------- *)

\* schedule_type is present and is neither one of the four plain types nor
\* "ical" accompanied by both schedule_start and schedule_repeat
BadSchedule(kw) ==
    /\ Has(kw, "schedule_type")
    /\ ~(IsText(kw["schedule_type"]) /\ kw["schedule_type"].s \in PlainTypes)
    /\ ~FullIcal(kw)

\* the blocks of _alert_creator before the schedule block raise nothing
ReachesSchedule(a) ==
    Running(ExpandTrigger(ExecOnEveryTrigger(CheckQuery(CheckDescription(
        CheckName(BuildQuery(a.filters,
            [kw |-> a.kw, exc |-> NoExc, builder |-> <<>>])))))))

\* C5 as stated: every option set with such a schedule_type fails with a
\* ValidationError on schedule_type and produces no output.
C5_BadScheduleFailsOnScheduleType ==
    (Normalizing /\ BadSchedule(args.kw)) =>
        /\ Failed("schedule_type")
        /\ ~payload.set

\* C5 as amended: every option set with such a schedule_type produces no
\* output and no request, the call ending in an exception; the exception is
\* the ValidationError on schedule_type whenever the blocks before the
\* schedule block raised nothing (otherwise theirs propagates).
C5_BadScheduleNeverAccepted ==
    (Normalizing /\ BadSchedule(args.kw)) =>
        /\ ~payload.set
        /\ http = <<>>
        /\ exc # NoExc
        /\ ReachesSchedule(args) => Failed("schedule_type")

\* "ical" with schedule_repeat missing, rejected on schedule_type
C5_Witness ==
    /\ pc = "create"
    /\ args.kw["schedule_type"] = StrV("ical")
    /\ Has(args.kw, "schedule_start")
    /\ ~Has(args.kw, "schedule_repeat")
    /\ Failed("schedule_type")

(* ---------------------------------------------------------------------- *)
(* C6.                                                                     *)
(* ---------------------------------------------------------------------- *)

\* C6: a create or update that normalizes successfully, with or without
\* filter triples, sends a body with no data_type and no analysis_type key.
C6_DataTypeConsumed ==
    Normalizing =>
        \A i \in 1..Len(http) :
            /\ ~Has(http[i].json, "data_type")
            /\ ~Has(http[i].json, "analysis_type")

(* ---------------------------------------------------------------------- *)
(* C7.                                                                     *)
(* ---------------------------------------------------------------------- *)

PlainSchedule(doc) ==
    /\ Has(doc, "schedule")
    /\ Len(doc["schedule"].items) >= 1
    /\ doc["schedule"].items[1].k = "type"
    /\ doc["schedule"].items[1].s \in PlainTypes

\* C7: a normalized document whose schedule is one of the four plain types
\* carries no schedule_start and no schedule_repeat key, and its schedule
\* object has no start or repeatRule field.
C7_PlainScheduleTakesNoTimes ==
    (Normalized /\ PlainSchedule(payload.doc)) =>
        /\ ~Has(payload.doc, "schedule_start")
        /\ ~Has(payload.doc, "schedule_repeat")
        /\ \A i \in 1..Len(payload.doc["schedule"].items) :
              payload.doc["schedule"].items[i].k \notin {"start", "repeatRule"}

(* ---------------------------------------------------------------------- *)
(* C8.                                                                     *)
(* ---------------------------------------------------------------------- *)

GoodOperator(v) == IsText(v) /\ v.s \in Comparisons

\* C8 as stated: in every normalized output, a triggerOperator key has a
\* value among >=, <=, =, != and there is no trigger key.
C8_OperatorAlwaysInSet ==
    Normalized =>
        /\ Has(payload.doc, "triggerOperator") =>
              GoodOperator(payload.doc["triggerOperator"])
        /\ ~Has(payload.doc, "trigger")

\* C8 as amended: in every normalized output of an option set that supplies
\* trigger, triggerOperator is present with a value among >=, <=, =, !=
\* (replacing a triggerOperator the caller passed alongside); no normalized
\* output has a trigger key.
C8_ExpandedOperatorInSet ==
    Normalized =>
        /\ Has(args.kw, "trigger") =>
              GoodOperator(payload.doc["triggerOperator"])
        /\ ~Has(payload.doc, "trigger")

\* a trigger expanded over a triggerOperator the caller also passed
C8_Witness ==
    /\ Normalized
    /\ Has(args.kw, "trigger")
    /\ Has(args.kw, "triggerOperator")
    /\ payload.doc["triggerOperator"] # args.kw["triggerOperator"]

(* ---------------------------------------------------------------------- *)
(* C9.                                                                     *)
(* ---------------------------------------------------------------------- *)

\* C9: with always_exec_on_trigger a boolean b the normalized output has
\* executeOnEveryTrigger = "true" / "false" and no always_exec_on_trigger
\* key; with always_exec_on_trigger not a boolean, normalization fails with
\* a ValidationError.
C9_ExecOnEveryTrigger ==
    (Normalizing /\ Has(args.kw, "always_exec_on_trigger")) =>
        IF args.kw["always_exec_on_trigger"].t = "bool"
        THEN payload.set =>
                /\ payload.doc["executeOnEveryTrigger"] =
                      StrV(IF args.kw["always_exec_on_trigger"].s = "1"
                           THEN "true" ELSE "false")
                /\ ~Has(payload.doc, "always_exec_on_trigger")
        ELSE exc.kind = "ValidationError" /\ ~payload.set

(* ---------------------------------------------------------------------- *)
(* C10.                                                                    *)
(* ---------------------------------------------------------------------- *)

\* the keys the builder writes for a recognized key
Wire(r) ==
    CASE r = "always_exec_on_trigger" -> {"executeOnEveryTrigger"}
      [] r = "trigger" -> {"triggerName", "triggerOperator", "triggerValue"}
      [] r \in {"schedule_type", "schedule_start", "schedule_repeat"} ->
            {"schedule"}
      [] OTHER -> {}

\* the keys of the output that come from the recognized keys supplied
DerivedKeys(kw) ==
    UNION {Wire(r) \cup {r} : r \in Keys(kw) \cap Recognized}

\* C10 as stated: without filter triples, every supplied key outside the
\* recognized set is in the normalized output with its value unchanged, and
\* every output key is such a key or derived from a supplied recognized key.
C10_OnlyOwnedKeysChange ==
    (Normalized /\ args.filters = <<>>) =>
        /\ \A k \in Keys(args.kw) \ Recognized :
              payload.doc[k] = args.kw[k]
        /\ Keys(payload.doc) \subseteq
              (Keys(args.kw) \ Recognized) \cup DerivedKeys(args.kw)

\* C10 as amended: the same, except that a supplied key outside the
\* recognized set that is also a wire key the builder writes for a supplied
\* recognized key (triggerOperator next to trigger) is overwritten.
C10_OnlyOwnedOrWrittenKeysChange ==
    (Normalized /\ args.filters = <<>>) =>
        /\ \A k \in (Keys(args.kw) \ Recognized) \ DerivedKeys(args.kw) :
              payload.doc[k] = args.kw[k]
        /\ Keys(payload.doc) \subseteq
              (Keys(args.kw) \ Recognized) \cup DerivedKeys(args.kw)

\* update(id, name=N, action=A) sends exactly name and action, as given
C10_Witness ==
    /\ pc = "update"
    /\ Len(http) = 1
    /\ Keys(args.kw) = {"name", "action"}
    /\ Keys(http[1].json) = {"name", "action"}
    /\ http[1].json["action"] = args.kw["action"]

====
